---- MODULE Spec2Model ----
(***************************************************************************)
(* A model of the MRG track parser (Parser/mrg_parser.py): the batch loop  *)
(* parse_multiple_files, MRGParser.parse (directory pass, then track pass) *)
(* and MRGParser._parse_track with the rescale of Track.__post_init__.     *)
(* Files are byte sequences; every read is a read of those bytes.          *)
(***************************************************************************)
EXTENDS Integers, Sequences, FiniteSets, TLC

(***************************************************************************)
(* Bounds of the model.                                                    *)
(***************************************************************************)
\* longest batch of sources handed to parse_multiple_files
MaxFiles == 2
\* the calls of parse() on one MRGParser object
MaxCalls == 2
\* the largest max_levels handed to download_all_levels
MaxLevelsArg == 3
\* the batches download_all_levels may fetch
MaxBatches == 2

(***************************************************************************)
(* Program constants.                                                      *)
(***************************************************************************)
\* the track marker byte 0x33 (_parse_track)
TrackMarker == 51
\* the escape value of the first signed byte of a point (_parse_track)
Escape == -1
\* the size of a batch of the level list (download_all_levels)
Limit == 100

NumLevelsFour == 3 + 1

\* the number of level sections of the directory (parse)
NumLevels == 3

(***************************************************************************)
(* Python integers are unbounded.  A value v is held as <<hi, lo>> with    *)
(* v = hi * 2^16 + lo and 0 <= lo < 2^16, so that values beyond 32 bits    *)
(* (a rescaled anchor, a cursor that left the 32-bit range) are exact.     *)
(***************************************************************************)
Pow2(n) == 2 ^ n

Py(v) == <<v \div 65536, v % 65536>>

PyAdd(a, b) ==
    LET s == a[2] + b[2]
    IN  <<a[1] + b[1] + (s \div 65536), s % 65536>>

\* a << n, for 0 <= n <= 16
PyShl(a, n) ==
    LET keep == Pow2(16 - n)
    IN  <<a[1] * Pow2(n) + (a[2] \div keep), (a[2] % keep) * Pow2(n)>>

\* a >> n (arithmetic: floor), for 0 <= n <= 16
PyShr(a, n) ==
    <<a[1] \div Pow2(n), (a[1] % Pow2(n)) * Pow2(16 - n) + (a[2] \div Pow2(n))>>

(***************************************************************************)
(* Track.__post_init__: the two rescales.                                  *)
(***************************************************************************)
AnchorRescaleSwapped(v) == PyShr(PyShl(v, 3), 16)

\* (x << 16) >> 3
AnchorRescale(v) == PyShr(PyShl(v, 16), 3)

\* (x << 3) >> 16
PointRescale(v) == PyShr(PyShl(v, 3), 16)

RescalePoints(points) ==
    [k \in 1..Len(points) |-> <<PointRescale(points[k][1]), PointRescale(points[k][2])>>]

\* Track(name, level, track_id, start_x, start_y, finish_x, finish_y, points):
\* the dataclass constructor followed by __post_init__
Track(name, level, track_id, start_x, start_y, finish_x, finish_y, points) ==
    [name        |-> name,
     level       |-> level,
     track_id    |-> track_id,
     start_x     |-> AnchorRescale(start_x),
     start_y     |-> AnchorRescale(start_y),
     finish_x    |-> AnchorRescale(finish_x),
     finish_y    |-> AnchorRescale(finish_y),
     points      |-> RescalePoints(points),
     source_file |-> ""]

(***************************************************************************)
(* struct.unpack on the bytes a read returned.  Each is applied only to a  *)
(* read of the full width; a short read raises struct.error (see Short).   *)
(***************************************************************************)
\* '>I'
unpack_I(b) == ((b[1] * 256 + b[2]) * 256 + b[3]) * 256 + b[4]

\* '>i'
unpack_i(b) ==
    LET top == IF b[1] >= 128 THEN b[1] - 256 ELSE b[1]
    IN  Py(((top * 256 + b[2]) * 256 + b[3]) * 256 + b[4])

\* '>H'
unpack_H(b) == b[1] * 256 + b[2]

\* 'B'
unpack_B(b) == b[1]

unpack_bUnsigned(b) == b[1]

\* 'b'
unpack_b(b) == IF b[1] >= 128 THEN b[1] - 256 ELSE b[1]

(***************************************************************************)
(* bytes.decode('cp1251', errors='ignore').replace('_', ' '): a name is a  *)
(* sequence of code points.  Byte 0x98 is the one byte cp1251 leaves       *)
(* undefined; errors='ignore' drops it.                                    *)
(***************************************************************************)
Cp1251High ==
    << 1026, 1027, 8218, 1107, 8222, 8230, 8224, 8225,
       8364, 8240, 1033, 8249, 1034, 1036, 1035, 1039,
       1106, 8216, 8217, 8220, 8221, 8226, 8211, 8212,
       -1, 8482, 1113, 8250, 1114, 1116, 1115, 1119,
       160, 1038, 1118, 1032, 164, 1168, 166, 167,
       1025, 169, 1028, 171, 172, 173, 174, 1031,
       176, 177, 1030, 1110, 1169, 181, 182, 183,
       1105, 8470, 1108, 187, 1112, 1029, 1109, 1111 >>

\* the code point of one byte, -1 when the codepage does not define it
Cp1251(b) ==
    IF b < 128 THEN b
    ELSE IF b >= 192 THEN 1040 + (b - 192)
    ELSE Cp1251High[b - 127]

RECURSIVE DecodeIgnore(_)
DecodeIgnore(bs) ==
    IF bs = <<>> THEN <<>>
    ELSE LET c == Cp1251(Head(bs))
         IN  (IF c = -1 THEN <<>> ELSE <<c>>) \o DecodeIgnore(Tail(bs))

ReplaceUnderscore(s) == [k \in 1..Len(s) |-> IF s[k] = 95 THEN 32 ELSE s[k]]

DecodeName(name_bytes) == ReplaceUnderscore(DecodeIgnore(name_bytes))

(***************************************************************************)
(* The inputs: MRG files written out byte by byte from a description, as   *)
(* the format lays them out (three level sections of count and entries,    *)
(* then the track records the entries point at), and every prefix of such  *)
(* a file (a truncated download).                                          *)
(***************************************************************************)
EncU32(n) == <<(n \div 16777216) % 256, (n \div 65536) % 256, (n \div 256) % 256, n % 256>>

EncI32(v) == EncU32(v)

EncU16(n) == <<(n \div 256) % 256, n % 256>>

EncI8(v) == <<v % 256>>

RECURSIVE Concat(_)
Concat(ss) == IF ss = <<>> THEN <<>> ELSE Head(ss) \o Concat(Tail(ss))

\* one point of the stream: <<"rel", dx, dy>> or <<"abs", x, y>>
EncPoint(p) ==
    IF p[1] = "abs" THEN EncI8(Escape) \o EncI32(p[2]) \o EncI32(p[3])
    ELSE EncI8(p[2]) \o EncI8(p[3])

EncTrack(t) ==
    <<t.marker>> \o EncI32(t.start[1]) \o EncI32(t.start[2])
                 \o EncI32(t.finish[1]) \o EncI32(t.finish[2])
                 \o EncU16(t.count)
                 \o EncI32(t.first[1]) \o EncI32(t.first[2])
                 \o Concat([k \in 1..Len(t.stream) |-> EncPoint(t.stream[k])])

MinInt32 == -2147483647 - 1
MaxInt32 == -(MinInt32 + 1)

\* deltas only: first point (100,100), then (1,1), (2,-2)
TDelta ==
    [marker |-> TrackMarker, start |-> <<8, -1>>, finish |-> <<262144, MinInt32>>,
     count |-> 3, first |-> <<100, 100>>,
     stream |-> << <<"rel", 1, 1>>, <<"rel", 2, -2>> >>]

\* escapes: first point (2,3), escaped (5,7), a delta, an escape to the
\* corners of the 32-bit range, and a delta that leaves that range
TEscape ==
    [marker |-> TrackMarker, start |-> <<MaxInt32, 32768>>, finish |-> <<-8, 1>>,
     count |-> 5, first |-> <<2, 3>>,
     stream |-> << <<"abs", 5, 7>>, <<"rel", 1, -2>>,
                   <<"abs", MaxInt32, MinInt32>>, <<"rel", 127, -128>> >>]

\* a header that declares no point at all
TZero ==
    [marker |-> TrackMarker, start |-> <<0, 1>>, finish |-> <<-32768, 65536>>,
     count |-> 0, first |-> <<536870912, -8193>>, stream |-> <<>>]

\* a header that declares one point
TOne ==
    [marker |-> TrackMarker, start |-> <<8, -3>>, finish |-> <<4, -4>>,
     count |-> 1, first |-> <<8, -1>>, stream |-> <<>>]

\* a record whose first byte is not the marker
TBad == [TDelta EXCEPT !.marker = 52]

\* The bytes of a file: levels is <<l0, l1, l2>>, each a sequence of entries
\* [name |-> bytes, body |-> k]; entry k points at bodies[k], and body 0 is
\* an offset past the end of the file.
DirLen(levels) ==
    LET EntryLen(e) == 4 + Len(e.name) + 1
        RECURSIVE Sum(_)
        Sum(es) == IF es = <<>> THEN 0 ELSE EntryLen(Head(es)) + Sum(Tail(es))
    IN  4 * NumLevels + Sum(levels[1]) + Sum(levels[2]) + Sum(levels[3])

BuildFile(levels, bodies) ==
    LET enc == [k \in 1..Len(bodies) |-> EncTrack(bodies[k])]
        all == Concat(enc)
        OffsetOf(k) ==
            IF k = 0 THEN DirLen(levels) + Len(all) + 5
            ELSE DirLen(levels) + Len(Concat(SubSeq(enc, 1, k - 1)))
        EncEntry(e) == EncU32(OffsetOf(e.body)) \o e.name \o <<0>>
        EncLevel(l) == EncU32(Len(l)) \o Concat([k \in 1..Len(l) |-> EncEntry(l[k])])
    IN  EncLevel(levels[1]) \o EncLevel(levels[2]) \o EncLevel(levels[3]) \o all

\* names: "A_b", a name with the byte cp1251 does not define, a Cyrillic one
NameA == <<65, 95, 98>>
NameB == <<66, 152, 95>>
NameC == <<192, 255>>
NameD == <<>>

\* level 0: A -> delta; level 1: B -> escape, C -> bad marker;
\* level 2: D -> no points
FileMixed ==
    BuildFile(<< << [name |-> NameA, body |-> 1] >>,
                 << [name |-> NameB, body |-> 2], [name |-> NameC, body |-> 3] >>,
                 << [name |-> NameD, body |-> 4] >> >>,
              <<TDelta, TEscape, TBad, TZero>>)

\* the failing entries come first and the entries point backwards: the first
\* entry points at the last record of the file, the next one past the end
FileBackwards ==
    BuildFile(<< << [name |-> NameC, body |-> 3], [name |-> NameB, body |-> 0],
                    [name |-> NameA, body |-> 1] >>,
                 << >>,
                 << [name |-> NameA, body |-> 2] >> >>,
              <<TBad, TOne, TEscape>>)

BaseFiles == {FileMixed, FileBackwards}

Prefixes(buf) == {SubSeq(buf, 1, n) : n \in 0..Len(buf)}

Catalogue == UNION {Prefixes(buf) : buf \in BaseFiles}

(***************************************************************************)
(* Paths and the files on disk.  A path is <<directory, stem, suffix>>.    *)
(***************************************************************************)
\* Path(file_path).stem
Stem(file_path) == file_path[2]

PathAX == <<"a", "x", "mrg">>
PathBX == <<"b", "x", "mrg">>
PathAY == <<"a", "y", "mrg">>
PathAZ == <<"a", "z", "mrg">>
PathBZ == <<"b", "z", "mrg">>

\* a disk of five files: two whole files with the same stem, a file that
\* lost the last byte of its last track, a file cut inside an entry's offset
\* and a file cut inside an entry's name
BatchDisk ==
    (PathAX :> FileMixed) @@ (PathBX :> FileBackwards)
    @@ (PathAY :> SubSeq(FileMixed, 1, Len(FileMixed) - 1))
    @@ (PathAZ :> SubSeq(FileMixed, 1, 6)) @@ (PathBZ :> SubSeq(FileMixed, 1, 9))

Disks == {BatchDisk} \cup {(PathAX :> buf) : buf \in Catalogue}

Lists(S) == UNION {[1..n -> S] : n \in 1..MaxFiles}

(***************************************************************************)
(* The state.                                                              *)
(***************************************************************************)
VARIABLES
    disk,           \* the content of each file
    file_paths,     \* parse_multiple_files: the argument
    pc,             \* the statement the program is at
    i,              \* parse_multiple_files: the loop index (from 1)
    all_tracks,     \* parse_multiple_files
    failed_files,   \* parse_multiple_files
    self_tracks,    \* MRGParser.tracks of the current parser
    pos,            \* the position of the open file f
    levels_data,    \* parse
    level,          \* parse: the loop variable of both passes
    track_count,    \* parse
    level_tracks,   \* parse
    track_id,       \* parse: the loop variable of both passes
    offset,         \* parse
    name_bytes,     \* parse
    byte,           \* parse: the last result of f.read(1) in the name loop
    name,           \* parse
    entry,          \* parse: the position of the second pass in level_tracks
    header,         \* _parse_track: start_x, start_y, finish_x, finish_y
    points_count,   \* _parse_track
    points,         \* _parse_track
    current_x,      \* _parse_track
    current_y,      \* _parse_track
    point_i,        \* _parse_track: the loop variable i
    results,        \* a caller of parse(): the values the calls returned so far
    dl_pc,          \* download_all_levels: the statement it is at
    max_levels,     \* download_all_levels: the argument
    api_offset,     \* download_all_levels: offset
    total_downloaded,   \* download_all_levels
    total_failed,   \* download_all_levels
    batch_len,      \* download_all_levels: len(levels_data)
    item,           \* download_all_levels: the position of the for loop in levels_data
    scraped         \* download_all_levels: 'scraped_levels' in locals()

batchVars == <<disk, file_paths, i, all_tracks, failed_files>>
dirVars   == <<levels_data, level, track_count, level_tracks, track_id, offset, name_bytes,
               byte, name, entry>>
trackVars == <<header, points_count, points, current_x, current_y, point_i>>
dlVars    == <<dl_pc, max_levels, api_offset, total_downloaded, total_failed, batch_len,
               item, scraped>>
envVars   == <<results, dlVars>>
vars      == <<batchVars, pc, self_tracks, pos, dirVars, trackVars, envVars>>

\* the file the current parser has open
buf == disk[file_paths[i]]

\* f.read(n) at position p: the bytes that are left, at most n
ReadAt(p, n) ==
    IF p >= Len(buf) THEN <<>>
    ELSE SubSeq(buf, p + 1, IF p + n <= Len(buf) THEN p + n ELSE Len(buf))

Read(n) == ReadAt(pos, n)

\* 'byte' before the first turn of the name loop: not bound yet
NoByte == <<0>>

NoHeader == <<Py(0), Py(0), Py(0), Py(0)>>

\* the locals of a _parse_track frame that is not running
NoFrame ==
    /\ header' = NoHeader
    /\ points_count' = 0
    /\ points' = <<>>
    /\ current_x' = Py(0)
    /\ current_y' = Py(0)
    /\ point_i' = 0

\* download_all_levels is not running
DownloaderIdle ==
    /\ dl_pc = "idle"
    /\ max_levels = 1
    /\ api_offset = 0
    /\ total_downloaded = 0
    /\ total_failed = 0
    /\ batch_len = 0
    /\ item = 0
    /\ scraped = FALSE

\* the locals of parse and _parse_track before the first call
ParserFresh ==
    /\ self_tracks = <<>>
    /\ pos = 0
    /\ levels_data = <<>>
    /\ level = 0
    /\ track_count = 0
    /\ level_tracks = <<>>
    /\ track_id = 0
    /\ offset = 0
    /\ name_bytes = <<>>
    /\ byte = NoByte
    /\ name = <<>>
    /\ entry = 1
    /\ header = NoHeader
    /\ points_count = 0
    /\ points = <<>>
    /\ current_x = Py(0)
    /\ current_y = Py(0)
    /\ point_i = 0

Init ==
    /\ disk \in Disks
    /\ file_paths \in Lists(DOMAIN disk)
    /\ pc = "batch"
    /\ results = <<>>
    /\ DownloaderIdle
    /\ i = 1
    /\ all_tracks = <<>>
    /\ failed_files = <<>>
    /\ self_tracks = <<>>
    /\ pos = 0
    /\ levels_data = <<>>
    /\ level = 0
    /\ track_count = 0
    /\ level_tracks = <<>>
    /\ track_id = 0
    /\ offset = 0
    /\ name_bytes = <<>>
    /\ byte = NoByte
    /\ name = <<>>
    /\ entry = 1
    /\ header = NoHeader
    /\ points_count = 0
    /\ points = <<>>
    /\ current_x = Py(0)
    /\ current_y = Py(0)
    /\ point_i = 0

(***************************************************************************)
(* parse_multiple_files: the loop over file_paths.                         *)
(***************************************************************************)
\* one iteration begins: parser = MRGParser(file_path), parser.parse() opens
\* the file and starts the first level section
OpenFile ==
    /\ pc = "batch"
    /\ i <= Len(file_paths)
    /\ self_tracks' = <<>>
    /\ pos' = 0
    /\ levels_data' = <<>>
    /\ level' = 0
    /\ pc' = "count"
    /\ UNCHANGED <<batchVars, envVars, track_count, level_tracks, track_id, offset,
                   name_bytes, byte, name, entry, trackVars>>

\* an exception leaves parse(): the except clause of parse_multiple_files
\* records the file and the loop goes on with the next one
ParseRaises ==
    /\ failed_files' = Append(failed_files, file_paths[i])
    /\ i' = i + 1
    /\ pc' = "batch"
    /\ UNCHANGED <<disk, file_paths, all_tracks, self_tracks, envVars>>

\* the loop is over: return all_tracks, failed_files
ReturnBatch ==
    /\ pc = "batch"
    /\ i > Len(file_paths)
    /\ pc' = "done"
    /\ UNCHANGED <<batchVars, envVars, self_tracks, pos, dirVars, trackVars>>

(***************************************************************************)
(* MRGParser.parse, first pass: the directory.                             *)
(***************************************************************************)
\* track_count = struct.unpack('>I', f.read(4))[0]
ReadCount ==
    /\ pc = "count"
    /\ LET b == Read(4)
       IN  IF Len(b) < 4
           THEN /\ ParseRaises
                /\ UNCHANGED <<pos, dirVars, trackVars>>
           ELSE /\ track_count' = unpack_I(b)
                /\ level_tracks' = <<>>
                /\ track_id' = 0
                /\ pos' = pos + 4
                /\ pc' = "entry"
                /\ UNCHANGED <<batchVars, envVars, self_tracks, levels_data, level, offset,
                               name_bytes, byte, name, entry, trackVars>>

\* for track_id in range(track_count): offset = struct.unpack('>I', f.read(4))[0]
ReadOffset ==
    /\ pc = "entry"
    /\ track_id < track_count
    /\ LET b == Read(4)
       IN  IF Len(b) < 4
           THEN /\ ParseRaises
                /\ UNCHANGED <<pos, dirVars, trackVars>>
           ELSE /\ offset' = unpack_I(b)
                /\ name_bytes' = <<>>
                /\ pos' = pos + 4
                /\ pc' = "name"
                /\ UNCHANGED <<batchVars, envVars, self_tracks, levels_data, level, track_count,
                               level_tracks, track_id, byte, name, entry, trackVars>>

\* one turn of the loop 'while True': byte = f.read(1); leave on b'\x00',
\* else name_bytes += byte.  On leaving, the name is decoded and the entry
\* appended to level_tracks.
ReadNameByte ==
    /\ pc = "name"
    /\ byte' = Read(1)
    /\ pos' = pos + Len(byte')
    /\ IF byte' = <<0>>
       THEN /\ name' = DecodeName(name_bytes)
            /\ level_tracks' = Append(level_tracks, <<offset, name', track_id>>)
            /\ track_id' = track_id + 1
            /\ pc' = "entry"
            /\ UNCHANGED name_bytes
       ELSE /\ name_bytes' = name_bytes \o byte'
            /\ UNCHANGED <<pc, name, level_tracks, track_id>>
    /\ UNCHANGED <<batchVars, envVars, self_tracks, levels_data, level, track_count, offset,
                   entry, trackVars>>

\* the inner loop is exhausted: levels_data.append(level_tracks), and the
\* next level section, or the second pass after the third section
EndLevel ==
    /\ pc = "entry"
    /\ track_id >= track_count
    /\ levels_data' = Append(levels_data, level_tracks)
    /\ IF level + 1 < NumLevels
       THEN /\ level' = level + 1
            /\ pc' = "count"
       ELSE /\ level' = 0
            /\ pc' = "walk"
    /\ entry' = 1
    /\ UNCHANGED <<batchVars, envVars, self_tracks, pos, track_count, level_tracks, track_id,
                   offset, name_bytes, byte, name, trackVars>>

(***************************************************************************)
(* MRGParser.parse, second pass: the tracks at the offsets.                *)
(***************************************************************************)
\* the next (offset, name, track_id) of levels_data[level]: f.seek(offset)
\* and the call of _parse_track
SeekTrack ==
    /\ pc = "walk"
    /\ level < Len(levels_data)
    /\ entry <= Len(levels_data[level + 1])
    /\ LET e == levels_data[level + 1][entry]
       IN  /\ offset' = e[1]
           /\ name' = e[2]
           /\ track_id' = e[3]
           /\ pos' = e[1]
    /\ pc' = "marker"
    /\ UNCHANGED <<batchVars, envVars, self_tracks, levels_data, level, track_count,
                   level_tracks, name_bytes, byte, entry, trackVars>>

\* levels_data[level] is exhausted: the next level
NextLevel ==
    /\ pc = "walk"
    /\ level < Len(levels_data)
    /\ entry > Len(levels_data[level + 1])
    /\ level' = level + 1
    /\ entry' = 1
    /\ UNCHANGED <<batchVars, envVars, pc, self_tracks, pos, levels_data, track_count,
                   level_tracks, track_id, offset, name_bytes, byte, name, trackVars>>

ExtendFront(all, tracks) == tracks \o all

\* all_tracks.extend(tracks)
Extend(all, tracks) == all \o tracks

\* track.source_file = file_name, for every track of tracks
Stamp(tracks, file_name) ==
    [t \in 1..Len(tracks) |-> [tracks[t] EXCEPT !.source_file = file_name]]

\* parse() returns self.tracks; parse_multiple_files stamps the tracks with
\* the stem of the path and extends all_tracks
ReturnTracks ==
    /\ pc = "walk"
    /\ level >= Len(levels_data)
    /\ self_tracks' = Stamp(self_tracks, Stem(file_paths[i]))
    /\ all_tracks' = Extend(all_tracks, self_tracks')
    /\ i' = i + 1
    /\ pc' = "batch"
    /\ UNCHANGED <<disk, file_paths, failed_files, pos, dirVars, trackVars, envVars>>

(***************************************************************************)
(* MRGParser._parse_track.                                                 *)
(***************************************************************************)
\* no 'try' around the reads: the exception leaves parse()
ReturnNoneRaises(n) ==
    /\ ParseRaises
    /\ pos' = pos + n
    /\ UNCHANGED <<dirVars, trackVars>>

\* return None (the marker mismatch, or the handler of 'except Exception')
\* after the reads consumed n bytes: back in the second pass, at the next entry
ReturnNone(n) ==
    /\ NoFrame
    /\ pos' = pos + n
    /\ entry' = entry + 1
    /\ pc' = "walk"
    /\ UNCHANGED <<batchVars, envVars, self_tracks, levels_data, level, track_count,
                   level_tracks, track_id, offset, name_bytes, byte, name>>

\* marker = struct.unpack('B', f.read(1))[0]; if marker != 0x33: return None
ReadMarker ==
    /\ pc = "marker"
    /\ LET b == Read(1)
       IN  IF Len(b) < 1 \/ unpack_B(b) # TrackMarker
           THEN ReturnNone(Len(b))
           ELSE /\ pos' = pos + 1
                /\ pc' = "header"
                /\ UNCHANGED <<batchVars, envVars, self_tracks, dirVars, trackVars>>

\* start_x, start_y, finish_x, finish_y ('>i'), points_count ('>H'), first_x,
\* first_y ('>i'): 26 bytes, read in order; points = [(first_x, first_y)]
ReadHeader ==
    /\ pc = "header"
    /\ LET b == Read(26)
       IN  IF Len(b) < 26
           THEN ReturnNone(Len(b))
           ELSE LET first_x == unpack_i(SubSeq(b, 19, 22))
                    first_y == unpack_i(SubSeq(b, 23, 26))
                IN  /\ header' = <<unpack_i(SubSeq(b, 1, 4)), unpack_i(SubSeq(b, 5, 8)),
                                   unpack_i(SubSeq(b, 9, 12)), unpack_i(SubSeq(b, 13, 16))>>
                    /\ points_count' = unpack_H(SubSeq(b, 17, 18))
                    /\ points' = << <<first_x, first_y>> >>
                    /\ current_x' = first_x
                    /\ current_y' = first_y
                    /\ point_i' = 1
                    /\ pos' = pos + 26
                    /\ pc' = "point"
                    /\ UNCHANGED <<batchVars, envVars, self_tracks, dirVars>>

LoopDoneLate(n, count) == n > count

\* 'for i in range(1, points_count)' is exhausted when i reaches points_count
LoopDone(n, count) == n >= count

CursorKept(escaped, current) == current

\* 'current_x = current_y = 0' on the escape: the cursor the delta is added to
CursorBase(escaped, current) == IF escaped THEN Py(0) ELSE current

\* one turn of 'for i in range(1, points_count)': a signed byte, then either
\* the escape (cursor reset, two '>i') or a second signed byte; the cursor
\* moves by (x, y) and is appended to points
ReadPoint ==
    /\ pc = "point"
    /\ ~LoopDone(point_i, points_count)
    /\ LET b == Read(1)
       IN  IF Len(b) < 1
           THEN ReturnNone(0)
           ELSE LET x_offset == unpack_b(b)
                    escaped == x_offset = Escape
                    rest == ReadAt(pos + 1, IF escaped THEN 8 ELSE 1)
                IN  IF Len(rest) < (IF escaped THEN 8 ELSE 1)
                    THEN ReturnNone(1 + Len(rest))
                    ELSE LET x == IF escaped THEN unpack_i(SubSeq(rest, 1, 4))
                                  ELSE Py(x_offset)
                             y == IF escaped THEN unpack_i(SubSeq(rest, 5, 8))
                                  ELSE Py(unpack_b(rest))
                             reset_x == CursorBase(escaped, current_x)
                             reset_y == CursorBase(escaped, current_y)
                         IN  /\ current_x' = PyAdd(reset_x, x)
                             /\ current_y' = PyAdd(reset_y, y)
                             /\ points' = Append(points, <<current_x', current_y'>>)
                             /\ point_i' = point_i + 1
                             /\ pos' = pos + 1 + Len(rest)
                             /\ UNCHANGED <<batchVars, envVars, pc, self_tracks, dirVars,
                                            header, points_count>>

\* the loop is exhausted: return Track(...); parse() appends it to self.tracks
ReturnTrack ==
    /\ pc = "point"
    /\ LoopDone(point_i, points_count)
    /\ self_tracks' = Append(self_tracks,
                             Track(name, level, track_id, header[1], header[2],
                                   header[3], header[4], points))
    /\ NoFrame
    /\ entry' = entry + 1
    /\ pc' = "walk"
    /\ UNCHANGED <<batchVars, envVars, pos, levels_data, level, track_count, level_tracks,
                   track_id, offset, name_bytes, byte, name>>

Next ==
    \/ OpenFile
    \/ ReturnBatch
    \/ ReadCount
    \/ ReadOffset
    \/ ReadNameByte
    \/ EndLevel
    \/ SeekTrack
    \/ NextLevel
    \/ ReturnTracks
    \/ ReadMarker
    \/ ReadHeader
    \/ ReadPoint
    \/ ReturnTrack

Spec == Init /\ [][Next]_vars

\* the interpreter runs the program: a step that can be taken is taken
FairSpec == Spec /\ WF_vars(Next)

(***************************************************************************)
(* One MRGParser object whose parse() is called more than once by its      *)
(* owner: __init__ runs once, every call of parse() runs the two passes    *)
(* on the same object and returns self.tracks.  An exception that leaves   *)
(* parse() ends the run of the owner (the steps ReadCount and ReadOffset   *)
(* record it as ParseRaises does).                                         *)
(***************************************************************************)
\* parser = MRGParser(file_path): self.tracks = []
CallerInit ==
    /\ disk \in {(PathAX :> b) : b \in Catalogue}
    /\ file_paths = <<PathAX>>
    /\ i = 1
    /\ all_tracks = <<>>
    /\ failed_files = <<>>
    /\ pc = "call"
    /\ results = <<>>
    /\ ParserFresh
    /\ DownloaderIdle

\* parser.parse() is entered: the file is opened, levels_data = [] and the
\* first level section begins; self.tracks is not assigned
CallParse ==
    /\ pc = "call"
    /\ Len(results) < MaxCalls
    /\ pos' = 0
    /\ levels_data' = <<>>
    /\ level' = 0
    /\ pc' = "count"
    /\ UNCHANGED <<batchVars, envVars, self_tracks, track_count, level_tracks, track_id,
                   offset, name_bytes, byte, name, entry, trackVars>>

\* return self.tracks: the owner keeps the value that was returned
ReturnParse ==
    /\ pc = "walk"
    /\ level >= Len(levels_data)
    /\ results' = Append(results, self_tracks)
    /\ pc' = "call"
    /\ UNCHANGED <<batchVars, dlVars, self_tracks, pos, dirVars, trackVars>>

CallerNext ==
    \/ CallParse
    \/ ReturnParse
    \/ ReadCount
    \/ ReadOffset
    \/ ReadNameByte
    \/ EndLevel
    \/ SeekTrack
    \/ NextLevel
    \/ ReadMarker
    \/ ReadHeader
    \/ ReadPoint
    \/ ReturnTrack

CallerSpec == CallerInit /\ [][CallerNext]_vars

(***************************************************************************)
(* GDLevelsDownloader.download_all_levels(max_levels): the batches of the  *)
(* level list and the download of each level.  The answers of the network  *)
(* are inputs of each step: the list the API or the scraper returns is     *)
(* known by its length, an item by whether it has an id, a download by its *)
(* outcome.  The parser does not run.                                      *)
(***************************************************************************)
\* the lengths of a list of levels: empty, short, a full batch
BatchLens == {0, 1, Limit}

\* what a call of download_mrg_file comes to: the file is there already, it
\* is fetched and written, the request fails, or writing the file raises
Outcomes == {"exists", "downloaded", "failed", "raises"}

\* the value download_mrg_file returns
download_mrg_file(outcome) == outcome \in {"exists", "downloaded"}

LimitReachedLate(total, m) == m # 0 /\ total > m

\* 'max_levels and total_downloaded >= max_levels'
LimitReached(total, m) == m # 0 /\ total >= m

parserVars == <<batchVars, pc, self_tracks, pos, dirVars, trackVars, results>>

\* offset = 0, total_downloaded = 0, total_failed = 0; the loop 'while True'
\* is about to fetch its first batch
DownloadInit ==
    /\ disk = BatchDisk
    /\ file_paths = <<>>
    /\ i = 1
    /\ all_tracks = <<>>
    /\ failed_files = <<>>
    /\ pc = "idle"
    /\ results = <<>>
    /\ ParserFresh
    /\ max_levels \in 1..MaxLevelsArg
    /\ dl_pc = "fetch"
    /\ api_offset = 0
    /\ total_downloaded = 0
    /\ total_failed = 0
    /\ batch_len = 0
    /\ item = 0
    /\ scraped = FALSE

\* the top of 'while True': get_levels_list(offset, limit, sort); without a
\* 'data' the scraper is tried at offset 0 only; an empty list, or no list,
\* leaves the loop
FetchBatch ==
    /\ dl_pc = "fetch"
    /\ api_offset < MaxBatches * Limit
    /\ \E api_ok \in BOOLEAN : \E n \in BatchLens :
         /\ scraped' = (scraped \/ (~api_ok /\ api_offset = 0))
         /\ IF (~api_ok /\ api_offset # 0) \/ n = 0
            THEN /\ dl_pc' = "save"
                 /\ UNCHANGED <<batch_len, item>>
            ELSE /\ batch_len' = n
                 /\ item' = 0
                 /\ dl_pc' = "item"
    /\ UNCHANGED <<parserVars, max_levels, api_offset, total_downloaded, total_failed>>

\* one turn of 'for level_info in levels_data': the limit check, the item
\* without an id, the call of download_mrg_file and the two counters; or the
\* list is exhausted
NextItem ==
    /\ dl_pc = "item"
    /\ IF item >= batch_len \/ LimitReached(total_downloaded, max_levels)
       THEN /\ dl_pc' = "after"
            /\ UNCHANGED <<item, total_downloaded, total_failed>>
       ELSE \E has_id \in BOOLEAN : \E outcome \in Outcomes :
              IF ~has_id
              THEN /\ item' = item + 1
                   /\ UNCHANGED <<dl_pc, total_downloaded, total_failed>>
              ELSE IF outcome = "raises"
              THEN /\ dl_pc' = "raised"
                   /\ UNCHANGED <<item, total_downloaded, total_failed>>
              ELSE /\ item' = item + 1
                   /\ total_downloaded' = total_downloaded +
                          (IF download_mrg_file(outcome) THEN 1 ELSE 0)
                   /\ total_failed' = total_failed +
                          (IF download_mrg_file(outcome) THEN 0 ELSE 1)
                   /\ UNCHANGED dl_pc
    /\ UNCHANGED <<parserVars, max_levels, api_offset, batch_len, scraped>>

\* after the for loop: leave on the limit, after scraping, after a short
\* batch; else offset += limit and the next batch
AfterBatch ==
    /\ dl_pc = "after"
    /\ IF \/ LimitReached(total_downloaded, max_levels)
          \/ scraped
          \/ batch_len < Limit
       THEN /\ dl_pc' = "save"
            /\ UNCHANGED api_offset
       ELSE /\ api_offset' = api_offset + Limit
            /\ dl_pc' = "fetch"
    /\ UNCHANGED <<parserVars, max_levels, total_downloaded, total_failed, batch_len,
                   item, scraped>>

\* the metadata is saved; return total_downloaded, total_failed
Finish ==
    /\ dl_pc = "save"
    /\ dl_pc' = "returned"
    /\ UNCHANGED <<parserVars, max_levels, api_offset, total_downloaded, total_failed,
                   batch_len, item, scraped>>

DownloadNext ==
    \/ FetchBatch
    \/ NextItem
    \/ AfterBatch
    \/ Finish

DownloadSpec == DownloadInit /\ [][DownloadNext]_vars

(***************************************************************************)
(* The format, read off a buffer without running the parser: the directory *)
(* of a buffer, and whether the track record at an offset is complete.     *)
(***************************************************************************)
U32At(b, p) == b[p + 1] * 16777216 + b[p + 2] * 65536 + b[p + 3] * 256 + b[p + 4]

U16At(b, p) == b[p + 1] * 256 + b[p + 2]

\* the index of the first 0x00 byte at index q or later, 0 when there is none
Terminator(b, q) ==
    LET Z == {z \in q..Len(b) : b[z] = 0}
    IN  IF Z = {} THEN 0 ELSE CHOOSE z \in Z : \A y \in Z : z <= y

\* n entries from position p on; "short" when the buffer ends inside an
\* offset, "unterminated" when it ends before the 0x00 of a name
RECURSIVE FormatEntries(_, _, _, _)
FormatEntries(b, p, n, idx) ==
    IF n = 0 THEN [status |-> "ok", entries |-> <<>>, end |-> p]
    ELSE IF p + 4 > Len(b) THEN [status |-> "short", entries |-> <<>>, end |-> p]
    ELSE LET z == Terminator(b, p + 5)
         IN  IF z = 0 THEN [status |-> "unterminated", entries |-> <<>>, end |-> p]
             ELSE LET rest == FormatEntries(b, z, n - 1, idx + 1)
                      e == [offset |-> U32At(b, p), name_bytes |-> SubSeq(b, p + 5, z - 1),
                            index |-> idx]
                  IN  [rest EXCEPT !.entries = <<e>> \o @]

RECURSIVE FormatLevels(_, _, _)
FormatLevels(b, p, n) ==
    IF n = 0 THEN [status |-> "ok", levels |-> <<>>]
    ELSE IF p + 4 > Len(b) THEN [status |-> "short", levels |-> <<>>]
    ELSE LET es == FormatEntries(b, p + 4, U32At(b, p), 0)
         IN  IF es.status # "ok" THEN [status |-> es.status, levels |-> <<>>]
             ELSE LET rest == FormatLevels(b, es.end, n - 1)
                  IN  [rest EXCEPT !.levels = <<es.entries>> \o @]

FormatDirectory(b) == FormatLevels(b, 0, NumLevels)

\* n points of a stream fit in the buffer from position p on
RECURSIVE StreamFits(_, _, _)
StreamFits(b, p, n) ==
    IF n <= 0 THEN TRUE
    ELSE IF p + 1 > Len(b) THEN FALSE
    ELSE IF b[p + 1] = 255 THEN p + 9 <= Len(b) /\ StreamFits(b, p + 9, n - 1)
    ELSE p + 2 <= Len(b) /\ StreamFits(b, p + 2, n - 1)

\* the record at offset off has the marker, a whole header and a whole stream
WellFormed(b, off) ==
    /\ off + 27 <= Len(b)
    /\ b[off + 1] = 51
    /\ StreamFits(b, off + 27, U16At(b, off + 17) - 1)

Range(s) == {s[k] : k \in DOMAIN s}

Last(s) == s[Len(s)]

\* the keys <<level, index>> of the entries of a directory, in directory order
EntryKeys(d) ==
    Concat([l \in 1..Len(d.levels) |->
              [e \in 1..Len(d.levels[l]) |-> <<l - 1, e - 1>>]])

EntryAt(d, key) == d.levels[key[1] + 1][key[2] + 1]

\* the content of the k-th source of the batch
Source(k) == disk[file_paths[k]]

(***************************************************************************)
(* C1.  parse terminates on every finite buffer: a read that reaches the   *)
(* end of the buffer ends the parse (no read of the name loop that         *)
(* returned no byte leaves the parser in the loop), and every run of       *)
(* parse_multiple_files comes to its return.                               *)
(***************************************************************************)
C1_Terminates == [](~(pc = "name" /\ byte = <<>>)) /\ <>(pc = "done")

(***************************************************************************)
(* C2.  For every directory entry whose byte at the offset is not 0x33,    *)
(* the returned failures hold exactly one record that names the track:     *)
(* source, level, track index and name.                                    *)
(***************************************************************************)
IsTrackFailure(r, source, lvl, idx, nm) ==
    /\ Len(r) >= 5
    /\ r[1] = source
    /\ r[2] = lvl
    /\ r[3] = idx
    /\ r[4] = nm

BadMarkerEntries(k) ==
    LET d == FormatDirectory(Source(k))
    IN  IF d.status # "ok" THEN {}
        ELSE {key \in Range(EntryKeys(d)) :
                LET off == EntryAt(d, key).offset
                IN  off < Len(Source(k)) /\ Source(k)[off + 1] # 51}

C2_OneFailurePerBadMarker ==
    pc = "done" =>
        \A k \in DOMAIN file_paths : \A key \in BadMarkerEntries(k) :
            LET nm == DecodeName(EntryAt(FormatDirectory(Source(k)), key).name_bytes)
            IN  Cardinality({f \in DOMAIN failed_files :
                    IsTrackFailure(failed_files[f], Stem(file_paths[k]), key[1], key[2], nm)}) = 1

(***************************************************************************)
(* C3.  Per-track errors are isolated: in the second pass of parse, every  *)
(* entry already visited has a Track exactly when its record is well       *)
(* formed (marker, whole header, whole stream), whatever became of the     *)
(* entries before it; no other Track exists; and a source whose directory  *)
(* is whole is never recorded as failed.                                   *)
(***************************************************************************)
TrackPass == pc \in {"walk", "marker", "header", "point"}

\* the second pass is done with the entry of this key
Visited(key) == key[1] < level \/ (key[1] = level /\ key[2] + 1 < entry)

TracksFor(tracks, key) ==
    {t \in DOMAIN tracks : tracks[t].level = key[1] /\ tracks[t].track_id = key[2]}

C3_TrackErrorsIsolated ==
    /\ TrackPass =>
         LET d == FormatDirectory(buf)
         IN  /\ d.status = "ok"
             /\ \A key \in Range(EntryKeys(d)) :
                  Cardinality(TracksFor(self_tracks, key)) =
                      IF Visited(key) /\ WellFormed(buf, EntryAt(d, key).offset)
                      THEN 1 ELSE 0
             /\ \A t \in DOMAIN self_tracks :
                  <<self_tracks[t].level, self_tracks[t].track_id>> \in Range(EntryKeys(d))
    /\ \A k \in 1..(i - 1) :
         FormatDirectory(Source(k)).status = "ok" => file_paths[k] \notin Range(failed_files)

\* parse is about to return; its first entry failed on a record that is cut
\* short, a later entry failed on its marker, and a later one still decoded
C3_Witness ==
    /\ pc = "walk"
    /\ level = NumLevels
    /\ LET d == FormatDirectory(buf)
       IN  /\ Len(d.levels[1]) = 3
           /\ EntryAt(d, <<0, 0>>).offset + 27 <= Len(buf)
           /\ buf[EntryAt(d, <<0, 0>>).offset + 1] = 51
           /\ ~WellFormed(buf, EntryAt(d, <<0, 0>>).offset)
           /\ buf[EntryAt(d, <<0, 2>>).offset + 1] # 51
    /\ Len(self_tracks) = 1
    /\ self_tracks[1].level = 2

(***************************************************************************)
(* C4.  A source whose directory needs more bytes than the buffer holds    *)
(* fails as a whole: once its parse has begun, parse_multiple_files comes  *)
(* to the next source with one more failure, the failure of this source,   *)
(* and with no track of it in all_tracks.                                  *)
(***************************************************************************)
DirTruncated(k) == FormatDirectory(Source(k)).status # "ok"

Keys(tracks) ==
    [t \in 1..Len(tracks) |-> <<tracks[t].source_file, tracks[t].level, tracks[t].track_id>>]

\* the keys of the well-formed entries of the k-th source, in directory order
SourceKeys(k) ==
    LET d == FormatDirectory(Source(k))
        Decodes(key) == WellFormed(Source(k), EntryAt(d, key).offset)
        good == SelectSeq(EntryKeys(d), Decodes)
    IN  IF d.status # "ok" THEN <<>>
        ELSE [e \in 1..Len(good) |-> <<Stem(file_paths[k]), good[e][1], good[e][2]>>]

ExpectedKeys(n) == Concat([k \in 1..n |-> SourceKeys(k)])

C4_TruncatedDirectoryFails ==
    \A k \in 1..MaxFiles :
        (k <= Len(file_paths) /\ i = k /\ pc = "count" /\ level = 0 /\ DirTruncated(k))
        ~> (i = k + 1 /\ pc = "batch" /\ Keys(all_tracks) = ExpectedKeys(k - 1)
            /\ Len(failed_files) = Cardinality({j \in 1..k : DirTruncated(j)})
            /\ Last(failed_files) = file_paths[k])

(***************************************************************************)
(* C5.  The number of points of every returned Track equals the 16-bit     *)
(* point_count of its header (original claim: for every value, 0 too).     *)
(* Amended: it equals point_count when point_count >= 1, and is 1 (the     *)
(* header's first point) when point_count is 0.                            *)
(***************************************************************************)
\* the point_count of the header of the record the track was decoded from
DeclaredCount(t) ==
    U16At(buf, EntryAt(FormatDirectory(buf), <<t.level, t.track_id>>).offset + 17)

C5_Original ==
    TrackPass => \A t \in DOMAIN self_tracks :
        Len(self_tracks[t].points) = DeclaredCount(self_tracks[t])

C5_PointCount ==
    TrackPass => \A t \in DOMAIN self_tracks :
        Len(self_tracks[t].points) =
            IF DeclaredCount(self_tracks[t]) = 0 THEN 1 ELSE DeclaredCount(self_tracks[t])

\* a track of five declared points and a track of no declared point returned
C5_Witness ==
    /\ TrackPass
    /\ \E t \in DOMAIN self_tracks :
         DeclaredCount(self_tracks[t]) = 5 /\ Len(self_tracks[t].points) = 5
    /\ \E t \in DOMAIN self_tracks :
         DeclaredCount(self_tracks[t]) = 0 /\ Len(self_tracks[t].points) = 1

(***************************************************************************)
(* C6.  all_tracks is the concatenation, in the order of file_paths, of    *)
(* the decoded tracks of each source, each in directory order (level, then *)
(* track index), and every track carries the stem of its source.           *)
(***************************************************************************)
C6_BatchOrder == Keys(all_tracks) = ExpectedKeys(i - 1)

\* a batch of two sources with different stems returned, each source having
\* contributed tracks, the first one tracks of two levels
C6_Witness ==
    /\ pc = "done"
    /\ Len(file_paths) = 2
    /\ Stem(file_paths[1]) # Stem(file_paths[2])
    /\ Len(SourceKeys(1)) >= 2
    /\ Len(SourceKeys(2)) >= 2
    /\ all_tracks[1].level # all_tracks[Len(SourceKeys(1))].level
    /\ Last(all_tracks).source_file = Stem(file_paths[2])

(***************************************************************************)
(* The bytes of a record, read off the buffer.                             *)
(***************************************************************************)
\* the big-endian signed 32-bit value at position p
I32At(b, p) ==
    <<(IF b[p + 1] >= 128 THEN b[p + 1] - 256 ELSE b[p + 1]) * 256 + b[p + 2],
      b[p + 3] * 256 + b[p + 4]>>

\* the signed 8-bit value at position p
I8At(b, p) == IF b[p + 1] >= 128 THEN b[p + 1] - 256 ELSE b[p + 1]

\* a value moved by a delta of one signed byte
Moved(a, d) == <<a[1] + ((a[2] + d) \div 65536), (a[2] + d) % 65536>>

\* a step of the point loop that appended a point
PointAppended == pc = "point" /\ pc' = "point" /\ Len(points') = Len(points) + 1

(***************************************************************************)
(* C7.  When the first signed byte of a point is -1, two signed 32-bit     *)
(* integers (x, y) follow; the appended point is exactly (x, y), whatever  *)
(* the points before it, and the cursor becomes (x, y).                    *)
(***************************************************************************)
C7_EscapeIsAbsolute ==
    [][(PointAppended /\ I8At(buf, pos) = -1) =>
         LET x == I32At(buf, pos + 1)
             y == I32At(buf, pos + 5)
         IN  /\ pos' = pos + 9
             /\ Last(points') = <<x, y>>
             /\ current_x' = x
             /\ current_y' = y
             /\ SubSeq(points', 1, Len(points)) = points]_vars

\* after the first point (2,3), the escaped (5,7) has been appended
C7_Witness ==
    /\ pc = "point"
    /\ points = << <<Py(2), Py(3)>>, <<Py(5), Py(7)>> >>
    /\ current_x = Py(5)
    /\ current_y = Py(7)

(***************************************************************************)
(* C8.  When the first signed byte dx of a point is not -1, one further    *)
(* signed byte dy is read and the appended point is the previous point     *)
(* plus (dx, dy); points[0] is the absolute first point of the header.     *)
(***************************************************************************)
C8_DeltaAccumulates ==
    [][/\ (pc = "header" /\ pc' = "point") =>
            points' = << <<I32At(buf, pos + 18), I32At(buf, pos + 22)>> >>
       /\ (PointAppended /\ I8At(buf, pos) # -1) =>
            /\ pos' = pos + 2
            /\ Last(points') = <<Moved(Last(points)[1], I8At(buf, pos)),
                                 Moved(Last(points)[2], I8At(buf, pos + 1))>>
            /\ current_x' = Last(points')[1]
            /\ current_y' = Last(points')[2]
            /\ SubSeq(points', 1, Len(points)) = points]_vars

\* first point (100,100) and the deltas (1,1), (2,-2)
C8_Witness ==
    /\ pc = "point"
    /\ points = << <<Py(100), Py(100)>>, <<Py(101), Py(101)>>, <<Py(103), Py(99)>> >>

(***************************************************************************)
(* The step of _parse_track that returns a Track: the loop is exhausted.   *)
(***************************************************************************)
AtReturn == pc = "point" /\ point_i >= points_count

Coordinates(t) ==
    {t.start_x, t.start_y, t.finish_x, t.finish_y}
    \cup {t.points[k][1] : k \in DOMAIN t.points}
    \cup {t.points[k][2] : k \in DOMAIN t.points}

(***************************************************************************)
(* C9.  Both rescales are computed on 32-bit values: the anchor is         *)
(* (v << 16) >> 3 and the point coordinate (v << 3) >> 16 with the left    *)
(* shift wrapped to 32 bits, and every coordinate of a Track lies in the   *)
(* signed 32-bit range.                                                    *)
(***************************************************************************)
\* a value taken modulo 2^32 and read as signed
Wrap32(a) ==
    LET h == a[1] % 65536
    IN  <<IF h >= 32768 THEN h - 65536 ELSE h, a[2]>>

InInt32(a) == a[1] >= -32768 /\ a[1] <= 32767

Anchor32(v) == PyShr(Wrap32(PyShl(v, 16)), 3)

Point32(v) == PyShr(Wrap32(PyShl(v, 3)), 16)

C9_Rescale32Bit ==
    [][AtReturn =>
         LET t == Last(self_tracks')
         IN  /\ Len(self_tracks') = Len(self_tracks) + 1
             /\ t.start_x = Anchor32(header[1])
             /\ t.start_y = Anchor32(header[2])
             /\ t.finish_x = Anchor32(header[3])
             /\ t.finish_y = Anchor32(header[4])
             /\ \A k \in DOMAIN points : \A c \in 1..2 :
                  InInt32(points[k][c]) => t.points[k][c] = Point32(points[k][c])
             /\ \A c \in Coordinates(t) : InInt32(c)]_vars

(***************************************************************************)
(* C10.  The rescales are asymmetric and total: the anchor of raw v is     *)
(* v * 2^13, the point coordinate of raw v is floor(v / 2^13); for 8 they  *)
(* are 65536 and 0, and for the point -1 it is -1.  The construction of    *)
(* the Track never fails.                                                  *)
(***************************************************************************)
\* v * 2^13 for a 32-bit v: (v div 8) * 2^16 + (v mod 8) * 2^13
Times8192(a) ==
    LET v == a[1] * 65536 + a[2]
    IN  <<v \div 8, (v % 8) * 8192>>

\* floor(v / 2^13): 8 * hi + floor(lo / 2^13)
FloorDiv8192(a) == Py(a[1] * 8 + (a[2] \div 8192))

C10_RescaleValues ==
    [][AtReturn =>
         LET t == Last(self_tracks')
         IN  /\ Len(self_tracks') = Len(self_tracks) + 1
             /\ t.start_x = Times8192(header[1])
             /\ t.start_y = Times8192(header[2])
             /\ t.finish_x = Times8192(header[3])
             /\ t.finish_y = Times8192(header[4])
             /\ Len(t.points) = Len(points)
             /\ \A k \in DOMAIN points : \A c \in 1..2 :
                  t.points[k][c] = FloorDiv8192(points[k][c])]_vars

\* a track with raw start_x 8 and raw first point (8, -1) was constructed
C10_Witness ==
    \E t \in DOMAIN self_tracks :
        /\ self_tracks[t].start_x = Py(65536)
        /\ self_tracks[t].points[1] = <<Py(0), Py(-1)>>

(***************************************************************************)
(* C11.  The name of a directory entry is the bytes between its offset and *)
(* the first 0x00, decoded byte by byte with the Cyrillic codepage: a byte *)
(* the codepage does not define becomes the replacement character U+FFFD,  *)
(* so the name has one character per byte; then every underscore is a      *)
(* space.                                                                  *)
(***************************************************************************)
ReplacedName(bs) ==
    [k \in 1..Len(bs) |->
        IF bs[k] = 95 THEN 32
        ELSE IF Cp1251(bs[k]) = -1 THEN 65533
        ELSE Cp1251(bs[k])]

C11_NameDecoding ==
    TrackPass =>
        LET d == FormatDirectory(buf)
        IN  \A key \in Range(EntryKeys(d)) :
              LET decoded == levels_data[key[1] + 1][key[2] + 1][2]
              IN  /\ decoded = ReplacedName(EntryAt(d, key).name_bytes)
                  /\ Len(decoded) = Len(EntryAt(d, key).name_bytes)

(***************************************************************************)
(* C12.  No two tracks of the result of parse_multiple_files share the     *)
(* triple (source_file, level, track_id), whatever the list of paths.      *)
(***************************************************************************)
C12_UniqueTriples ==
    \A s \in DOMAIN all_tracks : \A t \in DOMAIN all_tracks :
        s # t => Keys(all_tracks)[s] # Keys(all_tracks)[t]

(***************************************************************************)
(* C14.  Every Track of parse() has level 0, 1 or 2 and at least one       *)
(* point, the first being the rescaled first point of the header of its    *)
(* record; the first pass reads level sections 0, 1 and 2 and no other,    *)
(* so the second pass always works on exactly three sections.              *)
(***************************************************************************)
\* the offset of the record the track was decoded from
RecordOffset(t) == EntryAt(FormatDirectory(buf), <<t.level, t.track_id>>).offset

C13_ParseRepeatable ==
    \A c \in DOMAIN results : results[c] = results[1]

(***************************************************************************)
(* C15.  download_all_levels with max_levels >= 1: total_downloaded never  *)
(* exceeds max_levels; once it has reached max_levels no batch is fetched  *)
(* (the run is never at the top of the while loop) and no step calls       *)
(* download_mrg_file (a call changes one of the two counters or raises).   *)
(***************************************************************************)
C15_LimitRespected ==
    /\ [](total_downloaded <= max_levels)
    /\ [](total_downloaded >= max_levels => dl_pc # "fetch")
    /\ [][total_downloaded >= max_levels =>
            /\ total_downloaded' = total_downloaded
            /\ total_failed' = total_failed
            /\ api_offset' = api_offset
            /\ dl_pc' \notin {"fetch", "item", "raised"}]_vars

\* the run returned with the limit of at least two reached in the second
\* batch, after failed downloads
C15_Witness ==
    /\ dl_pc = "returned"
    /\ max_levels >= 2
    /\ total_downloaded = max_levels
    /\ total_failed > 0
    /\ api_offset > 0
    /\ item < batch_len

====
